---- MODULE Spec2Model ----
(***************************************************************************)
(* Ledgerly UK: the bookkeeping store (journals, invoices, bills, bank     *)
(* transactions) and the pages that write to it.                           *)
(*                                                                         *)
(* Money is held in pence (1 = 0.01), quantities in hundredths and tax     *)
(* rates in whole percent, so that every DECIMAL(n,2) column is an         *)
(* integer and rounding to two places is explicit.                         *)
(***************************************************************************)
EXTENDS Integers, Sequences, FiniteSets, TLC

VARIABLES
    journals,           \* public.journals: id -> [date]
    journal_lines,      \* public.journal_lines: sequence of rows
    invoices,           \* public.invoices: id -> header row
    invoice_lines,      \* public.invoice_lines: sequence of rows
    bills,              \* public.bills: id -> header row
    bill_lines,         \* public.bill_lines: sequence of rows
    bank_transactions,  \* public.bank_transactions: id -> row
    creating,           \* per session: the createInvoice / handleSubmit call in flight
    banking,            \* per session: the Banking page's React state
    lastOp,             \* the last write request and its outcome (history)
    commits,            \* per bank transaction: targets of the successful reconciles (history)
    lastRead,           \* what the last report read saw (history)
    chart_of_accounts,  \* public.chart_of_accounts: id -> [account_name, account_type]
    reportData,         \* the Reports page's reportData
    dateRange,          \* the Reports page's dateRange
    vat_obligations,    \* public.vat_obligations: period_key -> row
    vat_returns,        \* public.vat_returns: sequence of rows
    mtd,                \* the VatMtd page's React state, per session
    hmrc                \* the returns the tax authority received (history)

vars == <<journals, journal_lines, invoices, invoice_lines, bills, bill_lines,
          bank_transactions, creating, banking, lastOp, commits, lastRead,
          chart_of_accounts, reportData, dateRange,
          vat_obligations, vat_returns, mtd, hmrc>>

ledgerVars == <<journals, journal_lines>>
docVars == <<invoices, invoice_lines, bills, bill_lines, creating, lastRead>>
bankVars == <<bank_transactions, banking, commits>>
reportVars == <<chart_of_accounts, reportData, dateRange>>
mtdVars == <<vat_obligations, vat_returns, mtd, hmrc>>

-----------------------------------------------------------------------------
(* Bounds of the model *)

MaxJournals == 2
MaxJournalLines == 2

-----------------------------------------------------------------------------
(* SQL values: a nullable DECIMAL is [null, val]; a condition over it is    *)
(* three-valued ("T", "F", "U" for unknown)                                 *)

NULL == [null |-> TRUE, val |-> 0]

Num(v) == [null |-> FALSE, val |-> v]

Abs(n) == IF n < 0 THEN -n ELSE n

\* Number(x) of the client, and what SUM() skips: NULL counts as 0
Number(x) == IF x.null THEN 0 ELSE x.val

Gt0(x) == IF x.null THEN "U" ELSE IF x.val > 0 THEN "T" ELSE "F"

Eq0(x) == IF x.null THEN "U" ELSE IF x.val = 0 THEN "T" ELSE "F"

And3(a, b) ==
    IF a = "F" \/ b = "F" THEN "F"
    ELSE IF a = "T" /\ b = "T" THEN "T" ELSE "U"

Or3(a, b) ==
    IF a = "T" \/ b = "T" THEN "T"
    ELSE IF a = "F" /\ b = "F" THEN "F" ELSE "U"

\* A CHECK constraint rejects a row only when its condition is false
CheckPasses(c) == c # "F"

-----------------------------------------------------------------------------
(* Chart of accounts (seeded rows) *)

AccountIds == {"1000", "5000"}

\* the seeded accounts used here, by account_code
SeededAccounts ==
    [a \in {"1000", "2000", "3000", "4000", "4100", "5000"} |->
        CASE a = "1000" -> [account_name |-> "Current Account", account_type |-> "asset"]
          [] a = "2000" -> [account_name |-> "Accounts Payable", account_type |-> "liability"]
          [] a = "3000" -> [account_name |-> "Share Capital", account_type |-> "equity"]
          [] a = "4000" -> [account_name |-> "Sales Revenue", account_type |-> "income"]
          [] a = "4100" -> [account_name |-> "Other Income", account_type |-> "income"]
          [] OTHER -> [account_name |-> "Office Expenses", account_type |-> "expense"]]

\* ChartOfAccounts.handleSubmit: an account added by the user.  account_name
\* is not unique, so the name of a seeded account can be taken again
UserAccounts ==
    [a \in {"4001"} |-> [account_name |-> "Sales Revenue", account_type |-> "income"]]

WithUserAccounts ==
    [a \in DOMAIN SeededAccounts \cup DOMAIN UserAccounts |->
        IF a \in DOMAIN UserAccounts THEN UserAccounts[a] ELSE SeededAccounts[a]]

-----------------------------------------------------------------------------
(* Journals and journal lines: the store is the only writer *)

Dates == {1, 2}

\* what a client may send for debit_amount / credit_amount: a value, an
\* explicit null, or nothing (<<>>: the column is left out of the request)
AmountInputs == {Num(0), Num(100), Num(102), NULL}

AmountRequests == {<<v>> : v \in AmountInputs} \cup {<<>>}

\* the column of a request, or `fallback` when the request leaves it out
Column(req, fallback) == IF req = <<>> THEN fallback ELSE req[1]

\* DEFAULT 0 of debit_amount and credit_amount
ColumnDefault == Num(0)

\* CONSTRAINT debit_or_credit_not_both
debit_or_credit_not_both(debit, credit) ==
    CheckPasses(Or3(And3(Gt0(debit), Eq0(credit)),
                    And3(Eq0(debit), Gt0(credit))))

JournalLineRow(j, a, debit, credit) ==
    [journal_id |-> j, account_id |-> a,
     debit_amount |-> debit, credit_amount |-> credit]

JournalLineAccepted(row) ==
    /\ row.journal_id \in DOMAIN journals
    /\ row.account_id \in DOMAIN chart_of_accounts
    /\ debit_or_credit_not_both(row.debit_amount, row.credit_amount)

RECURSIVE SumDebit(_, _)
SumDebit(lines, j) ==
    IF lines = <<>> THEN 0
    ELSE (IF Head(lines).journal_id = j THEN Number(Head(lines).debit_amount) ELSE 0)
         + SumDebit(Tail(lines), j)

RECURSIVE SumCredit(_, _)
SumCredit(lines, j) ==
    IF lines = <<>> THEN 0
    ELSE (IF Head(lines).journal_id = j THEN Number(Head(lines).credit_amount) ELSE 0)
         + SumCredit(Tail(lines), j)

FreshJournalId == Cardinality(DOMAIN journals) + 1

InsertJournal(d) ==
    /\ Cardinality(DOMAIN journals) < MaxJournals
    /\ journals' = [i \in DOMAIN journals \cup {FreshJournalId} |->
                      IF i \in DOMAIN journals THEN journals[i] ELSE [date |-> d]]
    /\ lastOp' = [op |-> "insert_journal", ok |-> TRUE]
    /\ UNCHANGED <<journal_lines, docVars, bankVars, reportVars, mtdVars>>

\* One insert request carrying a batch of rows; the request is one statement,
\* so it stores every row or none
InsertJournalLines(batch) ==
    LET rows == [k \in DOMAIN batch |->
                   JournalLineRow(batch[k].journal_id, batch[k].account_id,
                       Column(batch[k].debit, ColumnDefault),
                       Column(batch[k].credit, ColumnDefault))]
        ok == \A k \in DOMAIN rows : JournalLineAccepted(rows[k])
    IN /\ Len(journal_lines) + Len(batch) <= MaxJournalLines
       /\ journal_lines' = IF ok THEN journal_lines \o rows ELSE journal_lines
       /\ lastOp' = [op |-> "insert_journal_lines", ok |-> ok]
       /\ UNCHANGED <<journals, docVars, bankVars, reportVars, mtdVars>>

\* An update request for one row: only the columns sent change
UpdateJournalLine(k, debit, credit) ==
    LET old == journal_lines[k]
        row == JournalLineRow(old.journal_id, old.account_id,
                   Column(debit, old.debit_amount),
                   Column(credit, old.credit_amount))
        ok == JournalLineAccepted(row)
    IN /\ k \in DOMAIN journal_lines
       /\ <<debit, credit>> # <<<<>>, <<>>>>
       /\ journal_lines' = IF ok THEN [journal_lines EXCEPT ![k] = row] ELSE journal_lines
       /\ lastOp' = [op |-> "update_journal_line", ok |-> ok]
       /\ UNCHANGED <<journals, docVars, bankVars, reportVars, mtdVars>>

DeleteJournalLine(k) ==
    /\ k \in DOMAIN journal_lines
    /\ journal_lines' = [i \in 1..(Len(journal_lines) - 1) |->
                           IF i < k THEN journal_lines[i] ELSE journal_lines[i + 1]]
    /\ lastOp' = [op |-> "delete_journal_line", ok |-> TRUE]
    /\ UNCHANGED <<journals, docVars, bankVars, reportVars, mtdVars>>

LineRequests ==
    [journal_id : 1..MaxJournals, account_id : AccountIds,
     debit : AmountRequests, credit : AmountRequests]

\* the two-row batches tried: both rows of one journal, every amount sent and not null
PairRequests ==
    {r \in LineRequests : r.debit # <<>> /\ r.credit # <<>>
                           /\ ~r.debit[1].null /\ ~r.credit[1].null}

LedgerNext ==
    \/ \E d \in Dates : InsertJournal(d)
    \/ \E r \in LineRequests : InsertJournalLines(<<r>>)
    \/ \E r1, r2 \in PairRequests :
          r1.journal_id = r2.journal_id /\ InsertJournalLines(<<r1, r2>>)
    \/ \E k \in 1..MaxJournalLines, d, c \in AmountRequests : UpdateJournalLine(k, d, c)
    \/ \E k \in 1..MaxJournalLines : DeleteJournalLine(k)

-----------------------------------------------------------------------------
(* Banking: import of bank transactions and reconciliation *)

MaxTx == 2

\* the statuses of the invoices and of the bills in the store when the
\* Banking sessions start
InitialInvoiceStatuses == <<"sent", "sent", "draft">>

InitialBillStatuses == <<"received">>

Sessions == {"A", "B"}

\* CHECK (status IN (...)) of invoices and of bills
InvoiceStatuses == {"draft", "sent", "paid", "overdue", "cancelled"}

BillStatuses == {"draft", "received", "paid", "overdue", "cancelled"}

\* the statuses Banking.fetchData asks for
OpenInvoiceStatuses == {"sent"}

OpenBillStatuses == {"approved", "awaiting_approval"}

\* amounts of the imported CSV rows, in pence
CsvAmounts == {12000, -5000, 0}

\* selectedTransaction when nothing is selected (null)
NoSelection == 0

\* the itemId '' of the manual button; ids of rows are 1, 2, ...
EmptyString == 0

\* the row bank_transactions keeps of a parsed CSV row: reconciled takes its
\* DEFAULT FALSE, invoice_id and bill_id stay null
ImportedRow(amount) ==
    [amount |-> amount, reconciled |-> FALSE, invoice_id |-> NULL, bill_id |-> NULL]

\* Banking.fetchData: every transaction, the open invoices, the open bills
FetchedState(txs) ==
    [transactions |-> txs,
     invoices |-> {i \in DOMAIN invoices : invoices[i].status \in OpenInvoiceStatuses},
     bills |-> {b \in DOMAIN bills : bills[b].status \in OpenBillStatuses}]

Refreshed(page, txs) ==
    [page EXCEPT !.transactions = FetchedState(txs).transactions,
                 !.invoices = FetchedState(txs).invoices,
                 !.bills = FetchedState(txs).bills]

\* the page mounting, or reloading
FetchData(s) ==
    /\ banking' = [banking EXCEPT ![s] = Refreshed(banking[s], bank_transactions)]
    /\ UNCHANGED <<bank_transactions, commits, lastOp, ledgerVars, docVars, reportVars, mtdVars>>

AppendRows(txs, rows) ==
    [t \in 1..(Len(txs) + Len(rows)) |->
        IF t <= Len(txs) THEN txs[t] ELSE rows[t - Len(txs)]]

\* Banking.handleFileUpload with the amounts parseCSV returned
HandleFileUpload(s, amounts) ==
    LET rows == [k \in DOMAIN amounts |-> ImportedRow(amounts[k])]
        txs == AppendRows(bank_transactions, rows)
    IN /\ Len(bank_transactions) + Len(amounts) <= MaxTx
       /\ IF amounts = <<>>
          THEN /\ lastOp' = [op |-> "handleFileUpload", ok |-> FALSE]
               /\ UNCHANGED <<bank_transactions, banking, commits>>
          ELSE /\ bank_transactions' = txs
               /\ commits' = AppendRows(commits, [k \in DOMAIN amounts |-> <<>>])
               /\ banking' = [banking EXCEPT ![s] = Refreshed(banking[s], txs)]
               /\ lastOp' = [op |-> "handleFileUpload", ok |-> TRUE]
       /\ UNCHANGED <<ledgerVars, docVars, reportVars, mtdVars>>

\* the Reconcile button of a row the page shows as unreconciled
OpenReconcileDialog(s, t) ==
    /\ t \in DOMAIN banking[s].transactions
    /\ ~banking[s].transactions[t].reconciled
    /\ banking' = [banking EXCEPT ![s].selectedTransaction = t,
                                  ![s].isReconcileDialogOpen = TRUE]
    /\ UNCHANGED <<bank_transactions, commits, lastOp, ledgerVars, docVars, reportVars, mtdVars>>

\* the dialog dismissed: onOpenChange(false)
CloseReconcileDialog(s) ==
    /\ banking[s].isReconcileDialogOpen
    /\ banking' = [banking EXCEPT ![s].isReconcileDialogOpen = FALSE]
    /\ UNCHANGED <<bank_transactions, commits, lastOp, ledgerVars, docVars, reportVars, mtdVars>>

\* the buttons of the dialog: Match per invoice for a positive amount, Match
\* per bill for a negative amount, and Mark as Reconciled (Manual)
MatchButtons(s) ==
    LET amount == banking[s].transactions[banking[s].selectedTransaction].amount
    IN (IF amount > 0 THEN {<<"invoice", i>> : i \in banking[s].invoices} ELSE {})
       \cup (IF amount < 0 THEN {<<"bill", b>> : b \in banking[s].bills} ELSE {})
       \cup {<<"invoice", EmptyString>>}

\* the update handleReconcile sends mentions both columns, instead of one
ReconcileUpdatesBoth(type, itemId) ==
    [reconciled |-> <<TRUE>>, invoice_id |-> <<itemId>>, bill_id |-> <<itemId>>]

\* the update handleReconcile sends (a column left out is <<>>)
ReconcileUpdates(type, itemId) ==
    IF type = "invoice"
    THEN [reconciled |-> <<TRUE>>, invoice_id |-> <<itemId>>, bill_id |-> <<>>]
    ELSE [reconciled |-> <<TRUE>>, invoice_id |-> <<>>, bill_id |-> <<itemId>>]

\* a UUID column with a foreign key takes only the id of a row of the table
LinkAccepted(req, table) ==
    req = <<>> \/ (req[1] # EmptyString /\ req[1] \in DOMAIN table)

UpdateAccepted(updates) ==
    /\ LinkAccepted(updates.invoice_id, invoices)
    /\ LinkAccepted(updates.bill_id, bills)

\* .update(updates).eq('id', transactionId): only the columns sent change
UpdatedRow(row, updates) ==
    [row EXCEPT !.reconciled = Column(updates.reconciled, row.reconciled),
                !.invoice_id = IF updates.invoice_id = <<>> THEN row.invoice_id
                               ELSE Num(updates.invoice_id[1]),
                !.bill_id = IF updates.bill_id = <<>> THEN row.bill_id
                            ELSE Num(updates.bill_id[1])]

\* Banking.handleReconcile for the selected transaction
HandleReconcile(s, type, itemId) ==
    LET t == banking[s].selectedTransaction
        updates == ReconcileUpdates(type, itemId)
        ok == UpdateAccepted(updates)
        txs == [bank_transactions EXCEPT ![t] = UpdatedRow(bank_transactions[t], updates)]
    IN /\ banking[s].isReconcileDialogOpen
       /\ t # NoSelection
       /\ <<type, itemId>> \in MatchButtons(s)
       /\ lastOp' = [op |-> "handleReconcile", ok |-> ok, session |-> s, tx |-> t,
                     target |-> <<type, itemId>>, before |-> bank_transactions[t]]
       /\ IF ok
          THEN /\ bank_transactions' = txs
               /\ commits' = [commits EXCEPT ![t] = Append(@, <<type, itemId>>)]
               /\ banking' = [banking EXCEPT ![s] =
                                 Refreshed([banking[s] EXCEPT
                                               !.isReconcileDialogOpen = FALSE,
                                               !.selectedTransaction = NoSelection], txs)]
          ELSE UNCHANGED <<bank_transactions, commits, banking>>
       /\ UNCHANGED <<ledgerVars, docVars, reportVars, mtdVars>>

BankNext ==
    \/ \E s \in Sessions : FetchData(s)
    \/ \E s \in Sessions, a \in CsvAmounts : HandleFileUpload(s, <<a>>)
    \/ \E s \in Sessions : HandleFileUpload(s, <<>>)
    \/ \E s \in Sessions, t \in 1..MaxTx : OpenReconcileDialog(s, t)
    \/ \E s \in Sessions : CloseReconcileDialog(s)
    \/ \E s \in Sessions, type \in {"invoice", "bill"}, itemId \in 0..Len(InitialInvoiceStatuses) :
          HandleReconcile(s, type, itemId)

-----------------------------------------------------------------------------
(* Claims about reconciliation *)

Links(row) == <<row.reconciled, row.invoice_id, row.bill_id>>

\* C5: a commit on a transaction whose reconciled flag is already true fails
\* and leaves its reconciled, invoice_id and bill_id as they were
C5_AlreadyReconciledRejected ==
    (lastOp.op = "handleReconcile" /\ lastOp.before.reconciled)
        => /\ ~lastOp.ok
           /\ Links(bank_transactions[lastOp.tx]) = Links(lastOp.before)

\* the link a commit to `target` stores
LinkOf(target) ==
    IF target[1] = "invoice" THEN <<TRUE, Num(target[2]), NULL>>
    ELSE <<TRUE, NULL, Num(target[2])>>

\* C6: of the commits sessions make against one transaction they both loaded
\* as unreconciled, exactly one succeeds, and the stored link is the first
\* writer's target
C6_FirstWriterWins ==
    \A t \in DOMAIN bank_transactions :
        /\ Len(commits[t]) <= 1
        /\ commits[t] # <<>> => Links(bank_transactions[t]) = LinkOf(commits[t][1])

\* C7: after any sequence of imports and reconciles no bank transaction has
\* both invoice_id and bill_id set
C7_AtMostOneLink ==
    \A t \in DOMAIN bank_transactions :
        bank_transactions[t].invoice_id.null \/ bank_transactions[t].bill_id.null

\* an imported transaction reconciled against an invoice, next to one that is
\* still unreconciled
C7_Witness ==
    \E t, u \in DOMAIN bank_transactions :
        /\ bank_transactions[t].reconciled
        /\ ~bank_transactions[t].invoice_id.null
        /\ bank_transactions[t].bill_id.null
        /\ ~bank_transactions[u].reconciled

\* C8: a bank transaction starts unreconciled, and once its reconciled flag
\* is true no step sets the flag back or changes its link
C8_ReconciledIsTerminal ==
    [][/\ \A t \in DOMAIN bank_transactions' \ DOMAIN bank_transactions :
             ~bank_transactions'[t].reconciled
       /\ \A t \in DOMAIN bank_transactions :
             bank_transactions[t].reconciled
                => Links(bank_transactions'[t]) = Links(bank_transactions[t])]_vars

\* the transactions linked to invoice i, and to bill b
LinkedToInvoice(i) ==
    {t \in DOMAIN bank_transactions : bank_transactions[t].invoice_id = Num(i)}

LinkedToBill(b) ==
    {t \in DOMAIN bank_transactions : bank_transactions[t].bill_id = Num(b)}

\* C27: no invoice and no bill is linked from more than one bank transaction
C27_OneTransactionPerTarget ==
    /\ \A i \in DOMAIN invoices : Cardinality(LinkedToInvoice(i)) <= 1
    /\ \A b \in DOMAIN bills : Cardinality(LinkedToBill(b)) <= 1

\* C28: every bill status Banking treats as open for reconciliation is a
\* status the bills table accepts, so that some storable bill is offered
C28_OpenBillStatusesStorable ==
    \A status \in OpenBillStatuses :
        /\ status \in BillStatuses
        /\ \A b \in DOMAIN bills :
              bills[b].status = status => b \in FetchedState(bank_transactions).bills

\* C30: Mark as Reconciled (Manual) on an unreconciled transaction leaves it
\* reconciled with neither invoice_id nor bill_id set
C30_ManualReconcile ==
    (/\ lastOp.op = "handleReconcile"
     /\ lastOp.target = <<"invoice", EmptyString>>
     /\ ~lastOp.before.reconciled)
        => Links(bank_transactions[lastOp.tx]) = <<TRUE, NULL, NULL>>

-----------------------------------------------------------------------------
(* Claims about the ledger *)

\* the tolerance of every balance comparison: 0.01
Epsilon == 1

Balanced(j) ==
    Abs(SumDebit(journal_lines, j) - SumCredit(journal_lines, j)) <= Epsilon

\* C1: after any sequence of journal writes every journal in the store has
\* sum(debit) equal to sum(credit) within 0.01, and a line write that leaves
\* its journal unbalanced is rejected and stores nothing
C1_JournalsBalanced ==
    \A j \in DOMAIN journals : Balanced(j)

OneSided(l) ==
    \/ /\ ~l.debit_amount.null /\ l.debit_amount.val > 0
       /\ ~l.credit_amount.null /\ l.credit_amount.val = 0
    \/ /\ ~l.debit_amount.null /\ l.debit_amount.val = 0
       /\ ~l.credit_amount.null /\ l.credit_amount.val > 0

\* C2: every stored journal line has exactly one of debit_amount and
\* credit_amount strictly positive and the other exactly zero, whatever the
\* accepted insert or update supplied (a null included)
C2_LinesOneSided ==
    \A k \in DOMAIN journal_lines : OneSided(journal_lines[k])

-----------------------------------------------------------------------------
(* Invoices and bills: line arithmetic *)

\* tax_codes (seeded rows): name -> rate in percent
tax_codes ==
    [tc \in {"Standard Rate VAT", "Reduced Rate VAT", "Zero Rate VAT", "Exempt"} |->
        CASE tc = "Standard Rate VAT" -> 20
          [] tc = "Reduced Rate VAT" -> 5
          [] OTHER -> 0]

\* the form's tax_code_id when no tax code is chosen
NoTaxCode == ""

\* the client computes in units of 0.000001 (quantity in hundredths times
\* price in pence is 0.0001; times a whole percent rate is 0.000001)
MicroPerPenny == 10000

\* n / d rounded half away from zero: what a DECIMAL(12,2) column keeps of
\* the number it is sent
RoundHalfAway(n, d) ==
    IF n >= 0 THEN (2 * n + d) \div (2 * d)
    ELSE -((2 * (-n) + d) \div (2 * d))

StoreMoney(micro) == RoundHalfAway(micro, MicroPerPenny)

\* taxCodes.find(tc => tc.id === line.tax_code_id): the rate, 0 when absent
VatRate(line) ==
    IF line.tax_code_id \in DOMAIN tax_codes THEN tax_codes[line.tax_code_id] ELSE 0

\* Invoices.calculateLineTotal, in micro units
InvoiceLineTotal(line) ==
    LET lineTotal == line.quantity * line.unit_price * 100
        vatAmount == line.quantity * line.unit_price * VatRate(line)
    IN [line_total |-> lineTotal, vat_amount |-> vatAmount]

\* Bills.calculateLineTotal, in micro units
BillLineTotal(line) ==
    LET subtotal == line.quantity * line.unit_price * 100
        vatAmount == line.quantity * line.unit_price * VatRate(line)
    IN [line_total |-> subtotal + vatAmount, vat_amount |-> vatAmount]

RECURSIVE SumOver(_, _)
SumOver(seq, field) ==
    IF seq = <<>> THEN 0 ELSE Head(seq)[field] + SumOver(Tail(seq), field)

\* Invoices.calculateInvoiceTotal
calculateInvoiceTotal(lines) ==
    LET totals == [k \in DOMAIN lines |-> InvoiceLineTotal(lines[k])]
        subtotal == SumOver(totals, "line_total")
        vatTotal == SumOver(totals, "vat_amount")
    IN [subtotal |-> subtotal, vatTotal |-> vatTotal, total |-> subtotal + vatTotal]

\* Bills.calculateTotals: the subtotal from quantity * unit_price, the VAT from
\* the lines' vat_amount
calculateTotals(lines) ==
    LET nets == [k \in DOMAIN lines |->
                   [net |-> lines[k].quantity * lines[k].unit_price * 100,
                    vat_amount |-> BillLineTotal(lines[k]).vat_amount]]
        subtotal == SumOver(nets, "net")
        vatAmount == SumOver(nets, "vat_amount")
    IN [subtotal |-> subtotal, vatAmount |-> vatAmount, total |-> subtotal + vatAmount]

\* the row invoice_lines keeps of one form line
InvoiceLineRow(id, line) ==
    [doc_id |-> id, quantity |-> line.quantity, unit_price |-> line.unit_price,
     tax_code_id |-> line.tax_code_id,
     line_total |-> StoreMoney(InvoiceLineTotal(line).line_total),
     vat_amount |-> StoreMoney(InvoiceLineTotal(line).vat_amount)]

\* the row bill_lines keeps of one form line
BillLineRow(id, line) ==
    [doc_id |-> id, quantity |-> line.quantity, unit_price |-> line.unit_price,
     tax_code_id |-> line.tax_code_id,
     line_total |-> StoreMoney(BillLineTotal(line).line_total),
     vat_amount |-> StoreMoney(BillLineTotal(line).vat_amount)]

-----------------------------------------------------------------------------
(* Invoices and bills: creation (a header request, then a lines request)   *)
(* and the Reports page reading the headers                                *)

MaxDocs == 1
MaxLines == 2

\* the form lines tried: 2 x 50.00 at 20%, 0.03 x 3.33 at 5%, 1 x 10.00 untaxed
LineInputs ==
    << [quantity |-> 200, unit_price |-> 5000, tax_code_id |-> "Standard Rate VAT"],
       [quantity |-> 3, unit_price |-> 333, tax_code_id |-> "Reduced Rate VAT"],
       [quantity |-> 100, unit_price |-> 1000, tax_code_id |-> NoTaxCode] >>

RECURSIVE FormsOfLength(_)
FormsOfLength(n) ==
    IF n = 0 THEN {<<>>}
    ELSE {Append(f, LineInputs[k]) : f \in FormsOfLength(n - 1), k \in DOMAIN LineInputs}

\* a form holds at least one line (removeLine / removeBillLine keep the last)
Forms == UNION {FormsOfLength(n) : n \in 1..MaxLines}

Idle == [pc |-> "idle", id |-> 0, lines |-> <<>>]

LinesOf(table, id) == SelectSeq(table, LAMBDA r : r.doc_id = id)

HeaderRow(d, subtotal, vat, total) ==
    [date |-> d, subtotal |-> StoreMoney(subtotal), vat_amount |-> StoreMoney(vat),
     total |-> StoreMoney(total), status |-> "draft"]

Put(table, id, row) ==
    [i \in DOMAIN table \cup {id} |-> IF i = id THEN row ELSE table[i]]

\* createInvoice up to its first await: the header insert
CreateInvoiceHeader(d, lines, fails) ==
    LET t == calculateInvoiceTotal(lines)
        id == Cardinality(DOMAIN invoices) + 1
    IN /\ creating.invoice.pc = "idle"
       /\ Cardinality(DOMAIN invoices) < MaxDocs
       /\ IF fails
          THEN /\ lastOp' = [op |-> "createInvoice", ok |-> FALSE]
               /\ UNCHANGED <<invoices, creating>>
          ELSE /\ invoices' = Put(invoices, id, HeaderRow(d, t.subtotal, t.vatTotal, t.total))
               /\ creating' = [creating EXCEPT !.invoice =
                                  [pc |-> "lines", id |-> id, lines |-> lines]]
               /\ lastOp' = [op |-> "createInvoice.header", ok |-> TRUE]
       /\ UNCHANGED <<invoice_lines, bills, bill_lines, lastRead, ledgerVars, bankVars, reportVars, mtdVars>>

\* createInvoice after the header insert: the lines insert, and the catch
CreateInvoiceLines(fails) ==
    LET c == creating.invoice
    IN /\ c.pc = "lines"
       /\ invoice_lines' =
            IF fails THEN invoice_lines
            ELSE invoice_lines \o [k \in DOMAIN c.lines |-> InvoiceLineRow(c.id, c.lines[k])]
       /\ creating' = [creating EXCEPT !.invoice = Idle]
       /\ lastOp' = [op |-> "createInvoice", ok |-> ~fails]
       /\ UNCHANGED <<invoices, bills, bill_lines, lastRead, ledgerVars, bankVars, reportVars, mtdVars>>

\* Bills.handleSubmit up to its first await: the header insert
HandleSubmitHeader(d, lines, fails) ==
    LET t == calculateTotals(lines)
        id == Cardinality(DOMAIN bills) + 1
    IN /\ creating.bill.pc = "idle"
       /\ Cardinality(DOMAIN bills) < MaxDocs
       /\ IF fails
          THEN /\ lastOp' = [op |-> "handleSubmit", ok |-> FALSE]
               /\ UNCHANGED <<bills, creating>>
          ELSE /\ bills' = Put(bills, id, HeaderRow(d, t.subtotal, t.vatAmount, t.total))
               /\ creating' = [creating EXCEPT !.bill =
                                  [pc |-> "lines", id |-> id, lines |-> lines]]
               /\ lastOp' = [op |-> "handleSubmit.header", ok |-> TRUE]
       /\ UNCHANGED <<bill_lines, invoices, invoice_lines, lastRead, ledgerVars, bankVars, reportVars, mtdVars>>

\* Bills.handleSubmit after the header insert: the lines insert, and the catch
HandleSubmitLines(fails) ==
    LET c == creating.bill
    IN /\ c.pc = "lines"
       /\ bill_lines' =
            IF fails THEN bill_lines
            ELSE bill_lines \o [k \in DOMAIN c.lines |-> BillLineRow(c.id, c.lines[k])]
       /\ creating' = [creating EXCEPT !.bill = Idle]
       /\ lastOp' = [op |-> "handleSubmit", ok |-> ~fails]
       /\ UNCHANGED <<bills, invoices, invoice_lines, lastRead, ledgerVars, bankVars, reportVars, mtdVars>>

InRange(d, from, to) == from <= d /\ d <= to

-----------------------------------------------------------------------------
(* The Reports page: Profit & Loss, Balance Sheet, Trial Balance, VAT return *)

\* the account a journal line is joined to: account:chart_of_accounts(...)
Account(line) == chart_of_accounts[line.account_id]

\* the rows of the P&L query: every journal line, each with its journal
\* embedded.  The date filters are on the embedded journal, which is not an
\* inner join: they empty the embedded journal of a line whose journal is
\* out of range and keep the line
ProfitLossLines(from, to) ==
    [k \in DOMAIN journal_lines |->
        [account_id |-> journal_lines[k].account_id,
         debit_amount |-> journal_lines[k].debit_amount,
         credit_amount |-> journal_lines[k].credit_amount,
         journal |-> IF InRange(journals[journal_lines[k].journal_id].date, from, to)
                     THEN Num(journals[journal_lines[k].journal_id].date)
                     ELSE NULL]]

\* the rows of the Balance Sheet and of the Trial Balance queries: every
\* journal line
AllLines == journal_lines

\* the amount of a line, with every type's sign turned over
LineAmountSwapped(type, line) ==
    IF type \in {"expense", "asset"}
    THEN Number(line.credit_amount) - Number(line.debit_amount)
    ELSE Number(line.debit_amount) - Number(line.credit_amount)

\* the amount a line adds to the row of its account, by the account's type
LineAmount(type, line) ==
    IF type \in {"expense", "asset"}
    THEN Number(line.debit_amount) - Number(line.credit_amount)
    ELSE Number(line.credit_amount) - Number(line.debit_amount)

\* array.find(item => item.account_name === accountName): its index, 0 if none
Find(rows, name) ==
    IF \E k \in DOMAIN rows : rows[k].account_name = name
    THEN CHOOSE k \in DOMAIN rows :
            /\ rows[k].account_name = name
            /\ \A m \in 1..(k - 1) : rows[m].account_name # name
    ELSE 0

\* existing.total += amount, or push({account_name, total: amount})
Accumulate(rows, name, amount) ==
    IF Find(rows, name) # 0
    THEN [rows EXCEPT ![Find(rows, name)].total = @ + amount]
    ELSE Append(rows, [account_name |-> name, total |-> amount])

\* the forEach of generateProfitLoss / generateBalanceSheet for one section
RECURSIVE FoldSection(_, _, _)
FoldSection(lines, type, rows) ==
    IF lines = <<>> THEN rows
    ELSE FoldSection(Tail(lines), type,
            IF Account(Head(lines)).account_type = type
            THEN Accumulate(rows, Account(Head(lines)).account_name,
                            LineAmount(type, Head(lines)))
            ELSE rows)

\* rows of an earlier run kept as the start of the next
StaleRows == reportData.profitLoss.income

\* const income = [], const expenses = [], const assets = [], ...
FreshRows == <<>>

\* array.reduce((sum, item) => sum + item.total, 0)
SumTotals(rows) == SumOver(rows, "total")

ProfitLoss(from, to) ==
    LET lines == ProfitLossLines(from, to)
        income == FoldSection(lines, "income", FreshRows)
        expenses == FoldSection(lines, "expense", FreshRows)
    IN [income |-> income, expenses |-> expenses,
        totalIncome |-> SumTotals(income), totalExpenses |-> SumTotals(expenses),
        netProfit |-> SumTotals(income) - SumTotals(expenses)]

\* a Balance Sheet row: {account_name, balance}
BalanceRows(rows) ==
    [k \in DOMAIN rows |->
        [account_name |-> rows[k].account_name, balance |-> rows[k].total]]

BalanceSheet ==
    LET assets == FoldSection(AllLines, "asset", FreshRows)
        liabilities == FoldSection(AllLines, "liability", FreshRows)
        equity == FoldSection(AllLines, "equity", FreshRows)
    IN [assets |-> BalanceRows(assets), liabilities |-> BalanceRows(liabilities),
        equity |-> BalanceRows(equity),
        totalAssets |-> SumTotals(assets), totalLiabilities |-> SumTotals(liabilities),
        totalEquity |-> SumTotals(equity)]

\* accountBalances[accountName] created on the first line of that name, with
\* that line's account type, then debit += and credit +=
AccumulateBalance(rows, line) ==
    LET name == Account(line).account_name
        known == Find(rows, name) # 0
        rows1 == IF known THEN rows
                 ELSE Append(rows, [account_name |-> name,
                                    account_type |-> Account(line).account_type,
                                    debit |-> 0, credit |-> 0])
        k == Find(rows1, name)
    IN [rows1 EXCEPT ![k].debit = @ + Number(line.debit_amount),
                     ![k].credit = @ + Number(line.credit_amount)]

RECURSIVE FoldBalances(_, _)
FoldBalances(lines, rows) ==
    IF lines = <<>> THEN rows
    ELSE FoldBalances(Tail(lines), AccumulateBalance(rows, Head(lines)))

\* Math.abs(totalDebits - totalCredits) < 0.01
BelowEpsilon(totalDebits, totalCredits) == Abs(totalDebits - totalCredits) < Epsilon

TrialBalance ==
    LET accounts == FoldBalances(AllLines, <<>>)
        totalDebits == SumOver(accounts, "debit")
        totalCredits == SumOver(accounts, "credit")
    IN [accounts |-> accounts, totalDebits |-> totalDebits,
        totalCredits |-> totalCredits,
        balanced |-> BelowEpsilon(totalDebits, totalCredits)]

\* the rows of .gte('date', from).lte('date', to)
DatedWithin(table, from, to) == SelectSeq(table, LAMBDA r : InRange(r.date, from, to))

\* the value of the documents taken as the sum of their totals, VAT included
SumTotal(docs) == SumOver(docs, "total")

\* reduce((sum, doc) => sum + (Number(doc.total) - Number(doc.vat_amount)), 0)
RECURSIVE SumExVat(_)
SumExVat(docs) ==
    IF docs = <<>> THEN 0
    ELSE (Head(docs).total - Head(docs).vat_amount) + SumExVat(Tail(docs))

VATReturn(from, to) ==
    LET seenInvoices == DatedWithin(invoices, from, to)
        seenBills == DatedWithin(bills, from, to)
        box1 == SumOver(seenInvoices, "vat_amount")
        box2 == 0
        box3 == box1 + box2
        box4 == SumOver(seenBills, "vat_amount")
        box5 == box3 - box4
    IN [box1 |-> box1, box2 |-> box2, box3 |-> box3, box4 |-> box4, box5 |-> box5,
        box6 |-> SumExVat(seenInvoices), box7 |-> SumExVat(seenBills),
        box8 |-> 0, box9 |-> 0]

MaxRuns == 2

\* how many times in a row the reports have been generated, this run included
Runs == IF lastOp.op = "generateReports"
        THEN (IF lastOp.runs < MaxRuns THEN lastOp.runs + 1 ELSE MaxRuns)
        ELSE 1

\* the date inputs of the Reports page
SetDateRange(from, to) ==
    /\ dateRange # [from |-> from, to |-> to]
    /\ dateRange' = [from |-> from, to |-> to]
    /\ lastOp' = [op |-> "setDateRange", ok |-> TRUE]
    /\ UNCHANGED <<chart_of_accounts, reportData, ledgerVars, docVars, bankVars, mtdVars>>

\* Reports.generateReports: the four reports of the current dateRange
GenerateReports ==
    /\ reportData' = [profitLoss |-> ProfitLoss(dateRange.from, dateRange.to),
                      balanceSheet |-> BalanceSheet,
                      trialBalance |-> TrialBalance,
                      vatReturn |-> VATReturn(dateRange.from, dateRange.to)]
    /\ lastOp' = [op |-> "generateReports", ok |-> TRUE, runs |-> Runs]
    /\ UNCHANGED <<chart_of_accounts, dateRange, ledgerVars, docVars, bankVars, mtdVars>>

ReportsNext ==
    \/ \E from, to \in Dates : SetDateRange(from, to)
    \/ GenerateReports

\* Reports.generateVATReturn: the headers dated within [from, to]; lastRead
\* also notes which of them had no line in the store when they were read
GenerateVATReturn(from, to) ==
    LET seenInvoices == {i \in DOMAIN invoices : InRange(invoices[i].date, from, to)}
        seenBills == {b \in DOMAIN bills : InRange(bills[b].date, from, to)}
    IN /\ lastRead' = [invoices |-> seenInvoices, bills |-> seenBills,
                       invoicesWithoutLines |->
                           {i \in seenInvoices : LinesOf(invoice_lines, i) = <<>>},
                       billsWithoutLines |->
                           {b \in seenBills : LinesOf(bill_lines, b) = <<>>}]
       /\ reportData' = [reportData EXCEPT !.vatReturn = VATReturn(from, to)]
       /\ dateRange' = [from |-> from, to |-> to]
       /\ lastOp' = [op |-> "generateVATReturn", ok |-> TRUE]
       /\ UNCHANGED <<invoices, invoice_lines, bills, bill_lines, creating,
                      chart_of_accounts, ledgerVars, bankVars, mtdVars>>

DocsNext ==
    \/ \E d \in Dates, f \in Forms, fails \in BOOLEAN : CreateInvoiceHeader(d, f, fails)
    \/ \E fails \in BOOLEAN : CreateInvoiceLines(fails)
    \/ \E d \in Dates, f \in Forms, fails \in BOOLEAN : HandleSubmitHeader(d, f, fails)
    \/ \E fails \in BOOLEAN : HandleSubmitLines(fails)
    \/ \E from, to \in Dates : GenerateVATReturn(from, to)

-----------------------------------------------------------------------------
(* Claims about invoices and bills *)

HeaderInFlight(kind, id) == creating[kind].pc = "lines" /\ creating[kind].id = id

\* C3: creating an invoice or a bill is all-or-nothing: once the creation has
\* ended, by success or by failure, a header in the store has its lines
C3_AllOrNothing ==
    /\ \A i \in DOMAIN invoices :
          HeaderInFlight("invoice", i) \/ LinesOf(invoice_lines, i) # <<>>
    /\ \A b \in DOMAIN bills :
          HeaderInFlight("bill", b) \/ LinesOf(bill_lines, b) # <<>>

\* C4: a read that interleaves with a creation never sees a header whose
\* lines are not stored
C4_ReadersSeeCompleteDocs ==
    /\ lastRead.invoicesWithoutLines = {}
    /\ lastRead.billsWithoutLines = {}

\* round2(quantity * unit_price), in pence
SpecNet(row) == RoundHalfAway(row.quantity * row.unit_price, 100)

\* round2(net * rate / 100), in pence
SpecVat(row) == RoundHalfAway(SpecNet(row) * VatRate(row), 100)

LineAsSpecified(row) ==
    /\ row.line_total = SpecNet(row)
    /\ row.vat_amount = SpecVat(row)

\* C9: every stored line keeps net = round2(quantity * unit_price) as its
\* line_total and vat = round2(net * rate / 100) as its vat_amount, the rate
\* being 0 without a tax code
C9_LinesAsSpecified ==
    /\ \A k \in DOMAIN invoice_lines : LineAsSpecified(invoice_lines[k])
    /\ \A k \in DOMAIN bill_lines : LineAsSpecified(bill_lines[k])

\* C10: an invoice line and a bill line of equal quantity, unit price and tax
\* code keep equal line_total and vat_amount
C10_SameLineCalculation ==
    \A k \in DOMAIN invoice_lines, m \in DOMAIN bill_lines :
        LET il == invoice_lines[k]
            bl == bill_lines[m]
        IN (il.quantity = bl.quantity /\ il.unit_price = bl.unit_price
              /\ il.tax_code_id = bl.tax_code_id)
           => (il.line_total = bl.line_total /\ il.vat_amount = bl.vat_amount)

\* the header of a document agrees with the lines stored for it
HeaderMatchesLines(header, lines) ==
    /\ Abs(header.subtotal - SumOver(lines, "line_total")) <= Epsilon
    /\ Abs(header.vat_amount - SumOver(lines, "vat_amount")) <= Epsilon
    /\ Abs(header.total - (header.subtotal + header.vat_amount)) <= Epsilon

\* C11: every stored invoice and bill has subtotal = the sum of its lines'
\* line_total, vat_amount = the sum of its lines' vat_amount and
\* total = subtotal + vat_amount, each within 0.01 (a write that disagrees
\* is rejected)
C11_HeaderTotalsMatchLines ==
    /\ \A i \in DOMAIN invoices :
          LinesOf(invoice_lines, i) # <<>>
             => HeaderMatchesLines(invoices[i], LinesOf(invoice_lines, i))
    /\ \A b \in DOMAIN bills :
          LinesOf(bill_lines, b) # <<>>
             => HeaderMatchesLines(bills[b], LinesOf(bill_lines, b))

-----------------------------------------------------------------------------
(* The VAT MTD page and the hmrc-submit-return function *)

MaxEdits == 1
MaxSubmissions == 1

\* selectedObligation when none is selected (null)
NoObligation == ""

\* the words, in lower case, that an account name includes
NameWords ==
    [name \in {"VAT on Sales", "VAT on Purchases", "VAT Payable", "Sales Revenue"} |->
        CASE name = "VAT on Sales" -> {"vat", "sales"}
          [] name = "VAT on Purchases" -> {"vat", "purchase"}
          [] name = "VAT Payable" -> {"vat"}
          [] OTHER -> {"sales"}]

\* accountName.includes(word)
Includes(name, word) == name \in DOMAIN NameWords /\ word \in NameWords[name]

\* the lines whose journal is dated within the obligation: journals!inner
ObligationLines(o) ==
    SelectSeq(journal_lines,
              LAMBDA l : InRange(journals[l.journal_id].date, o.start_date, o.end_date))

\* sum += line.debit_amount || 0, sum += line.credit_amount || 0 over `lines`
SumColumn(lines, column) ==
    SumOver([k \in DOMAIN lines |-> [amount |-> Number(lines[k][column])]], "amount")

\* the lines of the accounts whose name includes both words
LinesIncluding(lines, word1, word2) ==
    SelectSeq(lines, LAMBDA l : /\ Includes(Account(l).account_name, word1)
                                /\ Includes(Account(l).account_name, word2))

\* the lines of the accounts whose account_type is `type`
LinesOfType(lines, type) ==
    SelectSeq(lines, LAMBDA l : Account(l).account_type = type)

\* the nine boxes calculateVATReturn sets (Math.round(x * 100) / 100 of a sum
\* of amounts of two decimals is the sum, in pence)
CalculatedReturn(o) ==
    LET lines == ObligationLines(o)
        vatDueSales == SumColumn(LinesIncluding(lines, "vat", "sales"), "credit_amount")
        vatReclaimed == SumColumn(LinesIncluding(lines, "vat", "purchase"), "debit_amount")
        totalVatDue == vatDueSales
    IN [vatDueSales |-> vatDueSales,
        vatDueAcquisitions |-> 0,
        totalVatDue |-> totalVatDue,
        vatReclaimedCurrPeriod |-> vatReclaimed,
        netVatDue |-> totalVatDue - vatReclaimed,
        totalValueSalesExVAT |-> SumColumn(LinesOfType(lines, "Revenue"), "credit_amount"),
        totalValuePurchasesExVAT |-> SumColumn(LinesOfType(lines, "Expense"), "debit_amount"),
        totalValueGoodsSuppliedExVAT |-> 0,
        totalAcquisitionsExVAT |-> 0]

\* "Submit Return" of an open obligation: calculateVATReturn(obligation)
CalculateVATReturn(s, p, fails) ==
    /\ p \in DOMAIN mtd[s].obligations
    /\ mtd[s].obligations[p].status = "O"
    /\ mtd' = [mtd EXCEPT ![s].vatReturn = IF fails THEN @
                                           ELSE CalculatedReturn(mtd[s].obligations[p]),
                          ![s].selectedObligation = p,
                          ![s].edits = IF fails THEN @ ELSE 0]
    /\ lastOp' = [op |-> "calculateVATReturn", ok |-> ~fails, session |-> s]
    /\ UNCHANGED <<vat_obligations, vat_returns, hmrc,
                   ledgerVars, docVars, bankVars, reportVars>>

\* the nine inputs of the dialog
Boxes ==
    {"vatDueSales", "vatDueAcquisitions", "totalVatDue", "vatReclaimedCurrPeriod",
     "netVatDue", "totalValueSalesExVAT", "totalValuePurchasesExVAT",
     "totalValueGoodsSuppliedExVAT", "totalAcquisitionsExVAT"}

\* what is typed in a box, in pence (parseFloat(e.target.value) || 0)
EditValues == {15000}

\* onChange of one input: setVatReturn({...vatReturn, [box]: value})
EditBox(s, box, value) ==
    /\ mtd[s].selectedObligation # NoObligation
    /\ mtd[s].edits < MaxEdits
    /\ mtd[s].vatReturn[box] # value
    /\ mtd' = [mtd EXCEPT ![s].vatReturn[box] = value, ![s].edits = @ + 1]
    /\ lastOp' = [op |-> "editBox", ok |-> TRUE, session |-> s]
    /\ UNCHANGED <<vat_obligations, vat_returns, hmrc,
                   ledgerVars, docVars, bankVars, reportVars>>

\* the body hmrc-submit-return posts to the tax authority
Payload(periodKey, vatReturn) ==
    [periodKey |-> periodKey, vatReturn |-> vatReturn, finalised |-> TRUE]

\* how a call of hmrc-submit-return ends: the tax authority answers OK or
\* not OK, or the function stops before the call for want of a valid token
Outcomes == {"accepted", "rejected", "no token", "expired"}

\* the message of the Error thrown, returned with status 400
ErrorOf(outcome) ==
    CASE outcome = "accepted" -> ""
      [] outcome = "rejected" -> "HMRC API error"
      [] outcome = "no token" -> "Not connected to HMRC. Please authorize first."
      [] OTHER -> "Token expired. Please re-authorize."

\* a not OK answer followed by a second attempt
PostsWithRetry(outcome, body) ==
    IF outcome \in {"no token", "expired"} THEN <<>>
    ELSE IF outcome = "rejected" THEN <<body, body>> ELSE <<body>>

\* the requests the function makes to the tax authority: one fetch, after
\* the token tests
Posts(outcome, body) ==
    IF outcome \in {"no token", "expired"} THEN <<>> ELSE <<body>>

\* submitVATReturn and the hmrc-submit-return function it invokes: the return
\* is posted as the page holds it; when the tax authority accepts it, it is
\* stored, the obligation becomes fulfilled and the page reloads
SubmitVATReturn(s, outcome) ==
    LET p == mtd[s].selectedObligation
        body == Payload(p, mtd[s].vatReturn)
        fulfilled == [vat_obligations EXCEPT ![p].status = "F"]
    IN /\ p # NoObligation
       /\ mtd[s].submissions < MaxSubmissions
       /\ hmrc' = hmrc \o Posts(outcome, body)
       /\ IF outcome = "accepted"
          THEN /\ vat_returns' = Append(vat_returns, body)
               /\ vat_obligations' = fulfilled
               /\ mtd' = [mtd EXCEPT ![s].obligations = fulfilled,
                                     ![s].selectedObligation = NoObligation,
                                     ![s].submissions = @ + 1]
          ELSE /\ mtd' = [mtd EXCEPT ![s].submissions = @ + Len(Posts(outcome, body))]
               /\ UNCHANGED <<vat_returns, vat_obligations>>
       /\ lastOp' = [op |-> "submitVATReturn", ok |-> outcome = "accepted",
                     session |-> s, periodKey |-> p, error |-> ErrorOf(outcome)]
       /\ UNCHANGED <<ledgerVars, docVars, bankVars, reportVars>>

\* fetchObligations and the hmrc-obligations function: the open periods the
\* tax authority lists are upserted with no conflict target, so a period
\* already stored (UNIQUE(user_id, period_key)) is left as it is; the page
\* then reloads its list
FetchObligations(s, fails) ==
    /\ mtd' = IF fails THEN mtd ELSE [mtd EXCEPT ![s].obligations = vat_obligations]
    /\ lastOp' = [op |-> "fetchObligations", ok |-> ~fails, session |-> s]
    /\ UNCHANGED <<vat_obligations, vat_returns, hmrc,
                   ledgerVars, docVars, bankVars, reportVars>>

\* the page open in one browser
FirstSession == "A"

MtdNext ==
    \/ \E p \in DOMAIN vat_obligations, fails \in BOOLEAN :
          CalculateVATReturn(FirstSession, p, fails)
    \/ \E box \in Boxes, value \in EditValues : EditBox(FirstSession, box, value)
    \/ \E outcome \in Outcomes : SubmitVATReturn(FirstSession, outcome)

\* the boxes submitted as calculated
SubmitNext ==
    \/ \E p \in DOMAIN vat_obligations, fails \in BOOLEAN :
          CalculateVATReturn(FirstSession, p, fails)
    \/ \E outcome \in Outcomes : SubmitVATReturn(FirstSession, outcome)

\* the page open in every session
SessionsNext ==
    \/ \E s \in Sessions, fails \in BOOLEAN : FetchObligations(s, fails)
    \/ \E s \in Sessions, p \in DOMAIN vat_obligations, fails \in BOOLEAN :
          CalculateVATReturn(s, p, fails)
    \/ \E s \in Sessions, outcome \in Outcomes : SubmitVATReturn(s, outcome)

\* useState<VATReturn>({...}), no obligation loaded or selected
VatMtdPage ==
    [obligations |-> <<>>, selectedObligation |-> NoObligation, edits |-> 0,
     submissions |-> 0, vatReturn |-> [b \in Boxes |-> 0]]

-----------------------------------------------------------------------------
\* useState<ReportData>({...})
InitialReportData ==
    [profitLoss |-> [income |-> <<>>, expenses |-> <<>>, totalIncome |-> 0,
                     totalExpenses |-> 0, netProfit |-> 0],
     balanceSheet |-> [assets |-> <<>>, liabilities |-> <<>>, equity |-> <<>>,
                       totalAssets |-> 0, totalLiabilities |-> 0, totalEquity |-> 0],
     trialBalance |-> [accounts |-> <<>>, totalDebits |-> 0, totalCredits |-> 0,
                       balanced |-> FALSE],
     vatReturn |-> [box1 |-> 0, box2 |-> 0, box3 |-> 0, box4 |-> 0, box5 |-> 0,
                    box6 |-> 0, box7 |-> 0, box8 |-> 0, box9 |-> 0]]

\* the start of the year to today
InitialDateRange == [from |-> 1, to |-> 2]

mtdInit ==
    /\ vat_obligations = <<>>
    /\ vat_returns = <<>>
    /\ mtd = [s \in Sessions |-> VatMtdPage]
    /\ hmrc = <<>>

BankingPage ==
    [transactions |-> <<>>, invoices |-> {}, bills |-> {},
     selectedTransaction |-> NoSelection, isReconcileDialogOpen |-> FALSE]

Init ==
    /\ journals = <<>>
    /\ journal_lines = <<>>
    /\ invoices = <<>>
    /\ invoice_lines = <<>>
    /\ bills = <<>>
    /\ bill_lines = <<>>
    /\ bank_transactions = <<>>
    /\ creating = [invoice |-> Idle, bill |-> Idle]
    /\ banking = [s \in Sessions |-> BankingPage]
    /\ lastOp = [op |-> "none", ok |-> TRUE]
    /\ commits = <<>>
    /\ lastRead = [invoices |-> {}, bills |-> {},
                   invoicesWithoutLines |-> {}, billsWithoutLines |-> {}]
    /\ chart_of_accounts = SeededAccounts
    /\ reportData = InitialReportData
    /\ dateRange = InitialDateRange
    /\ mtdInit

SpecLedger == Init /\ [][LedgerNext]_vars

SpecDocs == Init /\ [][DocsNext]_vars

\* the store the Banking sessions start from: invoices of 120.00, bills of
\* 50.00, and no bank transaction
InitBank ==
    /\ journals = <<>>
    /\ journal_lines = <<>>
    /\ invoices = [i \in DOMAIN InitialInvoiceStatuses |->
                     [HeaderRow(1, 100000000, 20000000, 120000000)
                        EXCEPT !.status = InitialInvoiceStatuses[i]]]
    /\ invoice_lines = <<>>
    /\ bills = [b \in DOMAIN InitialBillStatuses |->
                  [HeaderRow(1, 50000000, 0, 50000000)
                     EXCEPT !.status = InitialBillStatuses[b]]]
    /\ \A i \in DOMAIN invoices : invoices[i].status \in InvoiceStatuses
    /\ \A b \in DOMAIN bills : bills[b].status \in BillStatuses
    /\ bill_lines = <<>>
    /\ bank_transactions = <<>>
    /\ creating = [invoice |-> Idle, bill |-> Idle]
    /\ banking = [s \in Sessions |-> BankingPage]
    /\ lastOp = [op |-> "none", ok |-> TRUE]
    /\ commits = <<>>
    /\ lastRead = [invoices |-> {}, bills |-> {},
                   invoicesWithoutLines |-> {}, billsWithoutLines |-> {}]
    /\ chart_of_accounts = SeededAccounts
    /\ reportData = InitialReportData
    /\ dateRange = InitialDateRange
    /\ mtdInit

SpecBank == InitBank /\ [][BankNext]_vars

-----------------------------------------------------------------------------
(* The stores the Reports page is run against *)

MaxReportLines == 2
MaxVatDocs == 2

\* every sequence over S of length at most n
SeqsOf(S, n) == UNION {[1..m -> S] : m \in 0..n}

\* journal 1 is dated 1, journal 2 is dated 2
ReportJournals == <<[date |-> 1], [date |-> 2]>>

\* the journal lines tried: <<journal, account, debit, credit>>
ReportLines ==
    { JournalLineRow(l[1], l[2], Num(l[3]), Num(l[4])) :
        l \in { <<1, "5000", 100, 0>>, <<1, "1000", 0, 100>>, <<2, "1000", 101, 0>>,
                <<2, "4000", 0, 100>>, <<1, "4000", 100, 0>>, <<2, "4001", 0, 100>>,
                <<2, "4100", 0, 100>>, <<1, "2000", 0, 100>>, <<2, "3000", 0, 100>> } }

\* the header createInvoice stores for a form
InvoiceHeaderOf(d, lines) ==
    HeaderRow(d, calculateInvoiceTotal(lines).subtotal,
              calculateInvoiceTotal(lines).vatTotal, calculateInvoiceTotal(lines).total)

\* the header Bills.handleSubmit stores for a form
BillHeaderOf(d, lines) ==
    HeaderRow(d, calculateTotals(lines).subtotal,
              calculateTotals(lines).vatAmount, calculateTotals(lines).total)

\* the documents tried: a date and a one-line form (20% VAT, or untaxed)
DocInputs ==
    [date : Dates, lines : {<<LineInputs[1]>>, <<LineInputs[3]>>}]

\* the line rows of the documents docs[k], docs[k + 1], ...
RECURSIVE StoredLines(_, _, _)
StoredLines(docs, k, kind) ==
    IF k > Len(docs) THEN <<>>
    ELSE [n \in DOMAIN docs[k].lines |->
            IF kind = "invoice" THEN InvoiceLineRow(k, docs[k].lines[n])
            ELSE BillLineRow(k, docs[k].lines[n])]
         \o StoredLines(docs, k + 1, kind)

\* the store after the invoices `sales` and the bills `purchases` were created
DocsStored(sales, purchases) ==
    /\ invoices = [k \in DOMAIN sales |-> InvoiceHeaderOf(sales[k].date, sales[k].lines)]
    /\ invoice_lines = StoredLines(sales, 1, "invoice")
    /\ bills = [k \in DOMAIN purchases |->
                  BillHeaderOf(purchases[k].date, purchases[k].lines)]
    /\ bill_lines = StoredLines(purchases, 1, "bill")

PagesIdle ==
    /\ bank_transactions = <<>>
    /\ creating = [invoice |-> Idle, bill |-> Idle]
    /\ banking = [s \in Sessions |-> BankingPage]
    /\ lastOp = [op |-> "none", ok |-> TRUE]
    /\ commits = <<>>
    /\ lastRead = [invoices |-> {}, bills |-> {},
                   invoicesWithoutLines |-> {}, billsWithoutLines |-> {}]
    /\ reportData = InitialReportData
    /\ dateRange = InitialDateRange

\* a ledger of up to MaxReportLines accepted lines, two invoices and a bill
InitReports ==
    /\ chart_of_accounts \in {SeededAccounts, WithUserAccounts}
    /\ journals = ReportJournals
    /\ journal_lines \in SeqsOf(ReportLines, MaxReportLines)
    /\ \A k \in DOMAIN journal_lines :
          JournalLineAccepted(journal_lines[k]) /\ OneSided(journal_lines[k])
    /\ DocsStored(<<[date |-> 1, lines |-> <<LineInputs[1]>>],
                    [date |-> 2, lines |-> <<LineInputs[3]>>]>>,
                  <<[date |-> 2, lines |-> <<LineInputs[1]>>]>>)
    /\ PagesIdle
    /\ mtdInit

SpecReports == InitReports /\ [][ReportsNext]_vars

-----------------------------------------------------------------------------
(* Claims about the reports *)

\* the reports on the page are those of the store and of the dateRange
Generated == lastOp.op = "generateReports"

LedgerDebits ==
    SumOver([k \in DOMAIN journal_lines |->
                [amount |-> Number(journal_lines[k].debit_amount)]], "amount")

LedgerCredits ==
    SumOver([k \in DOMAIN journal_lines |->
                [amount |-> Number(journal_lines[k].credit_amount)]], "amount")

\* C12: the Trial Balance has totalDebits = the sum of all line debits,
\* totalCredits = the sum of all line credits, and balanced true exactly when
\* they differ by at most 0.01 (a difference of exactly 0.01 is balanced)
C12_TrialBalanceTotals ==
    Generated =>
        /\ reportData.trialBalance.totalDebits = LedgerDebits
        /\ reportData.trialBalance.totalCredits = LedgerCredits
        /\ reportData.trialBalance.balanced
              <=> (Abs(LedgerDebits - LedgerCredits) <= Epsilon)

\* up to MaxVatDocs invoices and as many bills, and an empty ledger
InitVat ==
    /\ chart_of_accounts = SeededAccounts
    /\ journals = <<>>
    /\ journal_lines = <<>>
    /\ \E sales, purchases \in SeqsOf(DocInputs, MaxVatDocs) :
          DocsStored(sales, purchases)
    /\ PagesIdle
    /\ mtdInit

SpecVatReturn == InitVat /\ [][ReportsNext]_vars

-----------------------------------------------------------------------------
(* The stores the VAT MTD page is run against *)

MaxMtdLines == 2

\* accounts added by the user for VAT (ChartOfAccounts.handleSubmit)
VatAccounts ==
    [a \in {"2101", "1151"} |->
        IF a = "2101" THEN [account_name |-> "VAT on Sales", account_type |-> "liability"]
        ELSE [account_name |-> "VAT on Purchases", account_type |-> "asset"]]

WithVatAccounts ==
    [a \in DOMAIN SeededAccounts \cup DOMAIN VatAccounts |->
        IF a \in DOMAIN VatAccounts THEN VatAccounts[a] ELSE SeededAccounts[a]]

\* the journal lines tried: <<journal, account, debit, credit>>
MtdLines ==
    { JournalLineRow(l[1], l[2], Num(l[3]), Num(l[4])) :
        l \in { <<1, "2101", 0, 24000>>, <<1, "1151", 9000, 0>>,
                <<2, "2101", 0, 2000>>, <<1, "4000", 0, 120000>> } }

\* the obligations hmrc-obligations stored: one per date, both open
StoredObligations ==
    [p \in {"18A1", "18A2"} |->
        [start_date |-> IF p = "18A1" THEN 1 ELSE 2,
         end_date |-> IF p = "18A1" THEN 1 ELSE 2,
         status |-> "O"]]

InitMtd ==
    /\ chart_of_accounts = WithVatAccounts
    /\ journals = ReportJournals
    /\ journal_lines \in SeqsOf(MtdLines, MaxMtdLines)
    /\ \A k \in DOMAIN journal_lines :
          JournalLineAccepted(journal_lines[k]) /\ OneSided(journal_lines[k])
    /\ DocsStored(<<>>, <<>>)
    /\ PagesIdle
    /\ vat_obligations = StoredObligations
    /\ vat_returns = <<>>
    /\ mtd = [s \in Sessions |-> [VatMtdPage EXCEPT !.obligations = StoredObligations]]
    /\ hmrc = <<>>

SpecMtd == InitMtd /\ [][MtdNext]_vars

MaxSubmitLines == 1

\* a ledger of up to MaxSubmitLines lines, at most one invoice,
\* the two obligations open and loaded by both sessions
InitSubmit ==
    /\ chart_of_accounts = WithVatAccounts
    /\ journals = ReportJournals
    /\ journal_lines \in SeqsOf(MtdLines, MaxSubmitLines)
    /\ \A k \in DOMAIN journal_lines :
          JournalLineAccepted(journal_lines[k]) /\ OneSided(journal_lines[k])
    /\ \E sales \in SeqsOf({d \in DocInputs : d.date = 1}, 1) : DocsStored(sales, <<>>)
    /\ PagesIdle
    /\ vat_obligations = StoredObligations
    /\ vat_returns = <<>>
    /\ mtd = [s \in Sessions |-> [VatMtdPage EXCEPT !.obligations = StoredObligations]]
    /\ hmrc = <<>>

SpecSubmit == InitSubmit /\ [][SubmitNext]_vars

SpecSessions == InitSubmit /\ [][SessionsNext]_vars

\* the lines of account a
LinesOfAccount(a) == SelectSeq(journal_lines, LAMBDA l : l.account_id = a)

AccountDebit(a) ==
    SumOver([k \in DOMAIN LinesOfAccount(a) |->
                [amount |-> Number(LinesOfAccount(a)[k].debit_amount)]], "amount")

AccountCredit(a) ==
    SumOver([k \in DOMAIN LinesOfAccount(a) |->
                [amount |-> Number(LinesOfAccount(a)[k].credit_amount)]], "amount")

ActiveAccounts ==
    {a \in DOMAIN chart_of_accounts : AccountDebit(a) # 0 \/ AccountCredit(a) # 0}

\* C13: the Trial Balance has exactly one row per account with non-zero
\* activity, with that account's own type, total debit and total credit;
\* lines of two distinct accounts never share a row
C13_OneRowPerAccount ==
    Generated =>
        LET rows == reportData.trialBalance.accounts
        IN /\ Len(rows) = Cardinality(ActiveAccounts)
           /\ \A a \in ActiveAccounts :
                 \E k \in DOMAIN rows :
                    /\ rows[k].account_name = chart_of_accounts[a].account_name
                    /\ rows[k].account_type = chart_of_accounts[a].account_type
                    /\ rows[k].debit = AccountDebit(a)
                    /\ rows[k].credit = AccountCredit(a)

\* the sum, over the lines in `lines` whose account is of type `type`, of the
\* amount each adds to its account's balance
RECURSIVE TypeBalance(_, _)
TypeBalance(lines, type) ==
    IF lines = <<>> THEN 0
    ELSE (IF Account(Head(lines)).account_type = type
          THEN LineAmount(type, Head(lines)) ELSE 0)
         + TypeBalance(Tail(lines), type)

\* the lines posted up to and including date d
PostedUpTo(d) == SelectSeq(journal_lines, LAMBDA l : journals[l.journal_id].date <= d)

\* C14: the Balance Sheet covers every posting dated up to and including
\* `to` and none dated after it, whatever `from` is
C14_BalanceSheetAsOfTo ==
    Generated =>
        /\ reportData.balanceSheet.totalAssets
              = TypeBalance(PostedUpTo(dateRange.to), "asset")
        /\ reportData.balanceSheet.totalLiabilities
              = TypeBalance(PostedUpTo(dateRange.to), "liability")
        /\ reportData.balanceSheet.totalEquity
              = TypeBalance(PostedUpTo(dateRange.to), "equity")

\* the lines whose journal is dated within [from, to]
PostedWithin(from, to) ==
    SelectSeq(journal_lines, LAMBDA l : InRange(journals[l.journal_id].date, from, to))

\* C15: the Profit & Loss folds exactly the lines whose journal date d has
\* from <= d <= to; a line dated outside adds to no income or expense total
C15_ProfitLossWithinRange ==
    Generated =>
        /\ reportData.profitLoss.totalIncome
              = TypeBalance(PostedWithin(dateRange.from, dateRange.to), "income")
        /\ reportData.profitLoss.totalExpenses
              = TypeBalance(PostedWithin(dateRange.from, dateRange.to), "expense")

\* C16: the Profit & Loss has no row for an income or expense account whose
\* net activity over the folded lines is zero
C16_NoZeroRows ==
    Generated =>
        /\ \A k \in DOMAIN reportData.profitLoss.income :
              reportData.profitLoss.income[k].total # 0
        /\ \A k \in DOMAIN reportData.profitLoss.expenses :
              reportData.profitLoss.expenses[k].total # 0

\* the natural balance a line adds: credit - debit for income, liability and
\* equity accounts, debit - credit for expense and asset accounts
NaturalBalance(type, line) ==
    IF type \in {"income", "liability", "equity"}
    THEN Number(line.credit_amount) - Number(line.debit_amount)
    ELSE Number(line.debit_amount) - Number(line.credit_amount)

\* the lines of the accounts of one type and one name
LinesNamed(type, name) ==
    SelectSeq(journal_lines,
              LAMBDA l : /\ Account(l).account_type = type
                         /\ Account(l).account_name = name)

NamedBalance(type, name) ==
    SumOver([k \in DOMAIN LinesNamed(type, name) |->
                [amount |-> NaturalBalance(type, LinesNamed(type, name)[k])]],
            "amount")

\* the names of the accounts of one type that have a line
SectionNames(type) ==
    {Account(journal_lines[k]).account_name :
        k \in {n \in DOMAIN journal_lines : Account(journal_lines[n]).account_type = type}}

\* a section has one row per name, holding the natural balance of its lines
SectionAsNatural(rows, type, field) ==
    /\ {rows[k].account_name : k \in DOMAIN rows} = SectionNames(type)
    /\ Len(rows) = Cardinality(SectionNames(type))
    /\ \A k \in DOMAIN rows : rows[k][field] = NamedBalance(type, rows[k].account_name)

\* every posting is dated within the dateRange
InScope ==
    \A k \in DOMAIN journal_lines :
        InRange(journals[journal_lines[k].journal_id].date, dateRange.from, dateRange.to)

-----------------------------------------------------------------------------
(* Claims about the VAT return *)

\* Box3 = Box1 + Box2 and Box5 = Box3 - Box4, for the boxes of the VAT MTD page
MtdBoxesAdd(r) ==
    /\ r.totalVatDue = r.vatDueSales + r.vatDueAcquisitions
    /\ r.netVatDue = r.totalVatDue - r.vatReclaimedCurrPeriod

\* C18: Box3 = Box1 + Box2 and Box5 = Box3 - Box4 in every VAT return the
\* program computes, displays or submits, also after the user has edited
\* boxes in the submission dialog
C18_BoxArithmetic ==
    /\ reportData.vatReturn.box3 = reportData.vatReturn.box1 + reportData.vatReturn.box2
    /\ reportData.vatReturn.box5 = reportData.vatReturn.box3 - reportData.vatReturn.box4
    /\ \A s \in Sessions : MtdBoxesAdd(mtd[s].vatReturn)
    /\ \A k \in DOMAIN hmrc : MtdBoxesAdd(hmrc[k].vatReturn)

\* the documents of a table dated within the dateRange
InPeriod(table) ==
    {k \in DOMAIN table : dateRange.from <= table[k].date /\ table[k].date <= dateRange.to}

RECURSIVE SumVat(_, _)
SumVat(table, ids) ==
    IF ids = {} THEN 0
    ELSE LET k == CHOOSE n \in ids : TRUE
         IN table[k].vat_amount + SumVat(table, ids \ {k})

RECURSIVE SumNet(_, _)
SumNet(table, ids) ==
    IF ids = {} THEN 0
    ELSE LET k == CHOOSE n \in ids : TRUE
         IN (table[k].total - table[k].vat_amount) + SumNet(table, ids \ {k})

\* C19: over the invoices and bills dated within [from, to], Box1 is the sum
\* of invoice.vat_amount, Box4 the sum of bill.vat_amount, Box6 the sum of
\* invoice.total - invoice.vat_amount, Box7 the sum of bill.total -
\* bill.vat_amount, and Box2 = Box8 = Box9 = 0; documents dated outside add
\* nothing
C19_VatBoxes ==
    Generated =>
        /\ reportData.vatReturn.box1 = SumVat(invoices, InPeriod(invoices))
        /\ reportData.vatReturn.box4 = SumVat(bills, InPeriod(bills))
        /\ reportData.vatReturn.box6 = SumNet(invoices, InPeriod(invoices))
        /\ reportData.vatReturn.box7 = SumNet(bills, InPeriod(bills))
        /\ reportData.vatReturn.box2 = 0
        /\ reportData.vatReturn.box8 = 0
        /\ reportData.vatReturn.box9 = 0

\* a return over a period with a taxed invoice and a taxed bill inside it
\* and an invoice outside it
C19_Witness ==
    /\ Generated
    /\ reportData.vatReturn.box1 > 0
    /\ reportData.vatReturn.box4 > 0
    /\ reportData.vatReturn.box6 > 0
    /\ InPeriod(invoices) # {}
    /\ InPeriod(invoices) # DOMAIN invoices
    /\ InPeriod(bills) # {}

-----------------------------------------------------------------------------
(* Banking: match suggestions *)

MaxSuggestTx == 1

\* text is a sequence of characters; the absent customers(name) of an invoice
\* and the empty name are both falsy and both <<>>
LowerCase == [c \in {"A", "B", "O"} |-> IF c = "A" THEN "a" ELSE IF c = "B" THEN "b" ELSE "o"]

\* String.prototype.toLowerCase
toLowerCase(s) ==
    [k \in DOMAIN s |-> IF s[k] \in DOMAIN LowerCase THEN LowerCase[s[k]] ELSE s[k]]

\* String.prototype.includes
includes(s, sub) ==
    \E k \in 0..(Len(s) - Len(sub)) : SubSeq(s, k + 1, k + Len(sub)) = sub

\* the amounts (pence) and descriptions of the transactions of the store
SuggestAmounts == {12000, 12001, -5000, 0}

Descriptions == {<<"x">>, <<"x", "a", "1">>, <<"B", "O">>, <<"b", "9">>}

\* Math.abs(inv.total - transaction.amount) < 0.01; for a bill the amount
\* arrives negated
AmountMatches(total, amount) == Abs(total - amount) < Epsilon

TextMatches(description, number, name) ==
    \/ includes(toLowerCase(description), toLowerCase(number))
    \/ (name # <<>> /\ includes(toLowerCase(description), toLowerCase(name)))

\* the invoices suggested whatever the sign of the amount
MatchingInvoicesAnySign(page, transaction) ==
    {<<"invoice", i>> : i \in
        {i \in page.invoices :
            \/ AmountMatches(invoices[i].total, transaction.amount)
            \/ TextMatches(transaction.description, invoices[i].invoice_number,
                           invoices[i].customer_name)}}

MatchingInvoices(page, transaction) ==
    IF transaction.amount > 0
    THEN {<<"invoice", i>> : i \in
            {i \in page.invoices :
                \/ AmountMatches(invoices[i].total, transaction.amount)
                \/ TextMatches(transaction.description, invoices[i].invoice_number,
                               invoices[i].customer_name)}}
    ELSE {}

MatchingBills(page, transaction) ==
    IF transaction.amount < 0
    THEN {<<"bill", b>> : b \in
            {b \in page.bills :
                \/ AmountMatches(bills[b].total, -transaction.amount)
                \/ TextMatches(transaction.description, bills[b].bill_number,
                               bills[b].supplier_name)}}
    ELSE {}

\* Banking.getMatchingSuggestions; the page's invoices and bills are the rows
\* fetchData loaded, which no step of Banking changes
getMatchingSuggestions(page, transaction) ==
    MatchingInvoices(page, transaction) \cup MatchingBills(page, transaction)

\* the Unreconciled tab rendering the row of transaction t
RenderSuggestions(s, t) ==
    /\ t \in DOMAIN banking[s].transactions
    /\ ~banking[s].transactions[t].reconciled
    /\ lastOp' = [op |-> "getMatchingSuggestions", ok |-> TRUE,
                  transaction |-> banking[s].transactions[t],
                  invoices |-> banking[s].invoices, bills |-> banking[s].bills,
                  suggestions |-> getMatchingSuggestions(banking[s], banking[s].transactions[t])]
    /\ UNCHANGED <<bankVars, ledgerVars, docVars, reportVars, mtdVars>>

SuggestNext ==
    \/ \E s \in Sessions : FetchData(s)
    \/ \E s \in Sessions, t \in 1..MaxSuggestTx : RenderSuggestions(s, t)

\* the invoices and bills of the store: numbers, names and totals
NamedInvoices ==
    <<HeaderRow(1, 100000000, 20000000, 120000000)
        @@ [invoice_number |-> <<"A", "1">>, customer_name |-> <<"B", "o">>],
      HeaderRow(1, 100000000, 20000000, 120000000)
        @@ [invoice_number |-> <<"A", "2">>, customer_name |-> <<>>],
      HeaderRow(2, 40000000, 0, 40000000)
        @@ [invoice_number |-> <<"A", "3">>, customer_name |-> <<"B", "o">>]>>

NamedBills ==
    <<HeaderRow(1, 50000000, 0, 50000000)
        @@ [bill_number |-> <<"B", "9">>, supplier_name |-> <<"x">>]>>

DescribedRows ==
    {ImportedRow(a) @@ [description |-> d] : a \in SuggestAmounts, d \in Descriptions}

InitSuggest ==
    /\ journals = <<>>
    /\ journal_lines = <<>>
    /\ \E statuses \in [DOMAIN NamedInvoices -> {"sent", "draft"}] :
          invoices = [i \in DOMAIN NamedInvoices |->
                        [NamedInvoices[i] EXCEPT !.status = statuses[i]]]
    /\ invoice_lines = <<>>
    /\ bills = [b \in DOMAIN NamedBills |-> [NamedBills[b] EXCEPT !.status = "received"]]
    /\ \A b \in DOMAIN bills : bills[b].status \in BillStatuses
    /\ bill_lines = <<>>
    /\ \E n \in 1..MaxSuggestTx : bank_transactions \in SeqsOf(DescribedRows, n)
    /\ creating = [invoice |-> Idle, bill |-> Idle]
    /\ banking = [s \in Sessions |-> BankingPage]
    /\ lastOp = [op |-> "none", ok |-> TRUE]
    /\ commits = [t \in DOMAIN bank_transactions |-> <<>>]
    /\ lastRead = [invoices |-> {}, bills |-> {},
                   invoicesWithoutLines |-> {}, billsWithoutLines |-> {}]
    /\ chart_of_accounts = SeededAccounts
    /\ reportData = InitialReportData
    /\ dateRange = InitialDateRange
    /\ mtdInit

SpecSuggest == InitSuggest /\ [][SuggestNext]_vars

-----------------------------------------------------------------------------
(* Claims about match suggestions *)

\* the suggestions as specified: an amount within 0.01, the bounds included
SpecifiedSuggestions(op) ==
    (IF op.transaction.amount > 0
     THEN {<<"invoice", i>> : i \in
             {i \in op.invoices :
                 \/ Abs(invoices[i].total - op.transaction.amount) <= Epsilon
                 \/ TextMatches(op.transaction.description, invoices[i].invoice_number,
                                invoices[i].customer_name)}}
     ELSE {})
    \cup
    (IF op.transaction.amount < 0
     THEN {<<"bill", b>> : b \in
             {b \in op.bills :
                 \/ Abs(bills[b].total + op.transaction.amount) <= Epsilon
                 \/ TextMatches(op.transaction.description, bills[b].bill_number,
                                bills[b].supplier_name)}}
     ELSE {})

\* C21: for a positive amount the suggestions are exactly the open invoices
\* whose total is within 0.01 of the amount (a difference of exactly 0.01
\* included) or whose number or customer name occurs, case-insensitively, in
\* the description; for a negative amount the same rule selects bills
C21_SuggestionsAsSpecified ==
    lastOp.op = "getMatchingSuggestions"
        => lastOp.suggestions = SpecifiedSuggestions(lastOp)

\* C22: a zero amount yields no suggestion, a positive amount only invoices,
\* a negative amount only bills, and computing suggestions changes no
\* transaction, invoice or bill
C22_PartitionedBySign ==
    [][lastOp'.op = "getMatchingSuggestions"
          => /\ lastOp'.transaction.amount = 0 => lastOp'.suggestions = {}
             /\ lastOp'.transaction.amount > 0
                   => \A m \in lastOp'.suggestions : m[1] = "invoice"
             /\ lastOp'.transaction.amount < 0
                   => \A m \in lastOp'.suggestions : m[1] = "bill"
             /\ lastOp' # lastOp
                   => UNCHANGED <<bank_transactions, invoices, bills>>]_vars

\* a positive transaction whose description names a customer, rendered with
\* a suggested invoice of another total
C22_Witness ==
    /\ lastOp.op = "getMatchingSuggestions"
    /\ lastOp.transaction.amount > 0
    /\ \E m \in lastOp.suggestions :
          /\ m[1] = "invoice"
          /\ invoices[m[2]].total # lastOp.transaction.amount

-----------------------------------------------------------------------------
(* Chart of Accounts page *)

MaxAccounts == 2

\* CHECK (account_type IN (...)) of chart_of_accounts
AccountTypes == {"asset", "liability", "equity", "income", "expense"}

\* the values of the type Select of the create and of the edit dialog
ACCOUNT_TYPES == {"assets", "liabilities", "equity", "income", "expenses"}

\* the types the Profit & Loss and the Balance Sheet classify lines by
ProfitLossTypes == {"income", "expense"}

BalanceSheetTypes == {"asset", "liability", "equity"}

\* account codes typed into the create dialog (UNIQUE; the row is known here
\* by its code)
CodeInputs == <<"6000", "6001", "6002">>

NameInputs == {"", "Rent", "Sales Revenue"}

\* the rows the signed-in user owns: the policies on chart_of_accounts let
\* a user read, update and delete only rows with user_id = auth.uid(), which
\* the insert trigger stamps; the seeded rows have no user_id
OwnAccounts == DOMAIN chart_of_accounts \ DOMAIN SeededAccounts

\* the required-field test of handleSubmit and handleUpdate
FormFilled(formData) == formData.account_name # "" /\ formData.account_type # ""

AccountRow(formData) ==
    [account_name |-> formData.account_name, account_type |-> formData.account_type]

\* the create dialog: the form starts empty
CreateForms == [account_name : NameInputs, account_type : ACCOUNT_TYPES \cup {""}]

\* ChartOfAccounts.handleSubmit with the form as typed
HandleSubmit(code, formData) ==
    LET ok == /\ FormFilled(formData)
              /\ formData.account_type \in AccountTypes
              /\ code \notin DOMAIN chart_of_accounts
    IN /\ Cardinality(OwnAccounts) < MaxAccounts
       /\ formData \in CreateForms
       /\ lastOp' = [op |-> "handleSubmit", ok |-> ok, formData |-> formData,
                     account |-> code, before |-> DOMAIN chart_of_accounts]
       /\ chart_of_accounts' =
             IF ok THEN Put(chart_of_accounts, code, AccountRow(formData))
             ELSE chart_of_accounts
       /\ UNCHANGED <<reportData, dateRange, ledgerVars, docVars, bankVars, mtdVars>>

\* the form of the edit dialog: openEditDialog fills it from the account, the
\* name input and the type Select change it
EditForms(a) ==
    [account_name : NameInputs \cup {chart_of_accounts[a].account_name},
     account_type : ACCOUNT_TYPES \cup {chart_of_accounts[a].account_type}]

\* ChartOfAccounts.handleUpdate of the account the edit dialog was opened for
HandleUpdate(a, formData) ==
    LET ok == FormFilled(formData) /\ formData.account_type \in AccountTypes
    IN /\ a \in OwnAccounts
       /\ formData \in EditForms(a)
       /\ lastOp' = [op |-> "handleUpdate", ok |-> ok, formData |-> formData,
                     account |-> a, before |-> DOMAIN chart_of_accounts]
       /\ chart_of_accounts' =
             IF ok THEN [chart_of_accounts EXCEPT ![a] = AccountRow(formData)]
             ELSE chart_of_accounts
       /\ UNCHANGED <<reportData, dateRange, ledgerVars, docVars, bankVars, mtdVars>>

\* ChartOfAccounts.handleDelete, confirmed; journal_lines.account_id refers
\* to the account without ON DELETE
HandleDelete(a) ==
    LET ok == \A k \in DOMAIN journal_lines : journal_lines[k].account_id # a
    IN /\ a \in OwnAccounts
       /\ lastOp' = [op |-> "handleDelete", ok |-> ok, account |-> a]
       /\ chart_of_accounts' =
             IF ok THEN [b \in DOMAIN chart_of_accounts \ {a} |-> chart_of_accounts[b]]
             ELSE chart_of_accounts
       /\ UNCHANGED <<reportData, dateRange, ledgerVars, docVars, bankVars, mtdVars>>

\* every form either dialog can hold
FormInputs ==
    [account_name : NameInputs, account_type : ACCOUNT_TYPES \cup AccountTypes \cup {""}]

ChartNext ==
    \/ \E k \in 1..MaxAccounts, formData \in FormInputs :
          HandleSubmit(CodeInputs[k], formData)
    \/ \E k \in 1..MaxAccounts, formData \in FormInputs :
          HandleUpdate(CodeInputs[k], formData)
    \/ \E k \in 1..MaxAccounts : HandleDelete(CodeInputs[k])

SpecChart == Init /\ [][ChartNext]_vars

-----------------------------------------------------------------------------
(* Claims about the chart of accounts *)

\* C23: the account_type of an account never changes after the account is
\* created, whatever operation of the program runs
C23_TypeImmutable ==
    [][\A a \in DOMAIN chart_of_accounts \cap DOMAIN chart_of_accounts' :
          chart_of_accounts'[a].account_type = chart_of_accounts[a].account_type]_vars

\* C29: every account type that can be chosen when creating or editing an
\* account is one the store accepts, so a filled form with a chosen type is
\* stored, and every stored account has a type the Profit & Loss or the
\* Balance Sheet classifies lines by
C29_ChoosableTypesAccepted ==
    /\ (/\ lastOp.op \in {"handleSubmit", "handleUpdate"}
        /\ FormFilled(lastOp.formData)
        /\ lastOp.formData.account_type \in ACCOUNT_TYPES
        /\ lastOp.op = "handleSubmit" => lastOp.account \notin lastOp.before)
          => /\ lastOp.ok
             /\ chart_of_accounts[lastOp.account] = AccountRow(lastOp.formData)
    /\ \A a \in DOMAIN chart_of_accounts :
          chart_of_accounts[a].account_type \in ProfitLossTypes \cup BalanceSheetTypes

-----------------------------------------------------------------------------
(* Claims about the submission of VAT returns *)

\* C24: when the call to the tax authority fails (a not OK answer, a missing
\* or an expired token) the submit function makes no second attempt, returns
\* the error, stores no vat_returns row and leaves the obligation open
C24_FailureStoresNothing ==
    [][(lastOp'.op = "submitVATReturn" /\ ~lastOp'.ok)
          => /\ Len(hmrc') <= Len(hmrc) + 1
             /\ lastOp'.error # ""
             /\ vat_returns' = vat_returns
             /\ vat_obligations' = vat_obligations
             /\ vat_obligations'[lastOp'.periodKey].status = "O"]_vars

\* a return the tax authority answered not OK: posted once, nothing stored
C24_Witness ==
    /\ lastOp.op = "submitVATReturn"
    /\ lastOp.error = "HMRC API error"
    /\ Len(hmrc) = 1
    /\ vat_returns = <<>>
    /\ vat_obligations[lastOp.periodKey].status = "O"

\* the stored returns of period p
ReturnsOf(returns, p) == {k \in DOMAIN returns : returns[k].periodKey = p}

\* C25: after a successful submission the obligation is fulfilled and a
\* return is stored, no later step posts another return for a period whose
\* return is stored, and no period has more than one accepted return
C25_OneReturnPerPeriod ==
    [][/\ \A k \in DOMAIN vat_returns' :
             vat_obligations'[vat_returns'[k].periodKey].status = "F"
       /\ \A k \in DOMAIN hmrc' \ DOMAIN hmrc :
             ReturnsOf(vat_returns, hmrc'[k].periodKey) = {}
       /\ \A p \in DOMAIN vat_obligations' :
             Cardinality(ReturnsOf(vat_returns', p)) <= 1]_vars

\* C26: the nine boxes the MTD page pre-fills for an obligation period equal
\* the nine boxes the Reports VAT Return computes for the same period over
\* the same store
C26_SameBoxesAsReports ==
    (lastOp.op = "calculateVATReturn" /\ lastOp.ok)
        => LET page == mtd[lastOp.session]
               o == page.obligations[page.selectedObligation]
               r == VATReturn(o.start_date, o.end_date)
           IN /\ page.vatReturn.vatDueSales = r.box1
              /\ page.vatReturn.vatDueAcquisitions = r.box2
              /\ page.vatReturn.totalVatDue = r.box3
              /\ page.vatReturn.vatReclaimedCurrPeriod = r.box4
              /\ page.vatReturn.netVatDue = r.box5
              /\ page.vatReturn.totalValueSalesExVAT = r.box6
              /\ page.vatReturn.totalValuePurchasesExVAT = r.box7
              /\ page.vatReturn.totalValueGoodsSuppliedExVAT = r.box8
              /\ page.vatReturn.totalAcquisitionsExVAT = r.box9

====
